---- MODULE Spec2Model ----
(***************************************************************************)
(* A model of chat_analyzer.py: ChatDataAnalyzer (load_json_files,         *)
(* process_data, create_visualizations, generate_summary_report) and the   *)
(* main() routine that drives them.                                        *)
(*                                                                         *)
(* Conventions.  A Python dict is a function whose DOMAIN is its key set,  *)
(* so an absent key is really absent and dict.get is Get.  A file name is  *)
(* a sequence of one-character strings, so that str.endswith and           *)
(* os.path.splitext are computed.  A prompt is the sequence of its word    *)
(* tokens as written (case kept); a response is a sequence of characters.  *)
(* A raw date-time is a string; pd.to_datetime turns it into a record.     *)
(***************************************************************************)
EXTENDS Integers, Sequences, FiniteSets, TLC

VARIABLES
    dir,           \* the input directory: files in os.listdir order
    all_data,      \* self.all_data
    processed_df,  \* self.processed_df
    pc,            \* main()'s position
    todo,          \* what is left of main()'s loop over source files
    stdout,        \* the messages printed so far
    out_dirs,      \* directories made under visualization_outputs
    out_files,     \* image files written under visualization_outputs
    report,        \* what generate_summary_report has printed
    exc,           \* the uncaught exception that ended the run ("" if none)
    calls          \* the methods invoked so far, in order

vars == <<dir, all_data, processed_df, pc, todo, stdout, out_dirs, out_files,
          report, exc, calls>>

(***************************************************************************)
(* Bounds of the model.                                                    *)
(***************************************************************************)
MaxFiles == 2
MaxSessions == 2
MaxTurns == 2

(***************************************************************************)
(* Python helpers.                                                         *)
(***************************************************************************)
EmptyDict == [k \in {} |-> k]

Get(d, k, default) == IF k \in DOMAIN d THEN d[k] ELSE default

SetItem(d, k, v) == [y \in DOMAIN d \cup {k} |-> IF y = k THEN v ELSE d[y]]

EndsWith(s, suffix) ==
    /\ Len(s) >= Len(suffix)
    /\ SubSeq(s, Len(s) - Len(suffix) + 1, Len(s)) = suffix

MaxOf(S) == CHOOSE m \in S : \A n \in S : n <= m

\* Mutant of SplitextRoot: cuts at the last dot whatever precedes it.
SplitextRootLastDot(p) ==
    LET dots == {i \in 1..Len(p) : p[i] = "."}
    IN  IF dots = {} THEN p ELSE SubSeq(p, 1, MaxOf(dots) - 1)

\* os.path.splitext(p)[0] for a name without separators: the extension
\* starts at the last dot, unless only dots precede that dot.
SplitextRoot(p) ==
    LET dots == {i \in 1..Len(p) : p[i] = "."}
    IN  IF dots = {} THEN p
        ELSE LET dotIndex == MaxOf(dots)
             IN  IF \E i \in 1..(dotIndex - 1) : p[i] # "."
                 THEN SubSeq(p, 1, dotIndex - 1)
                 ELSE p

RECURSIVE Concat(_)
Concat(seqs) == IF seqs = <<>> THEN <<>> ELSE Head(seqs) \o Concat(Tail(seqs))

\* Series.unique(): the distinct values in order of first appearance.
RECURSIVE Unique(_)
Unique(s) ==
    IF s = <<>> THEN <<>>
    ELSE LET front == Unique(SubSeq(s, 1, Len(s) - 1))
             last == s[Len(s)]
         IN  IF \E i \in 1..Len(front) : front[i] = last
             THEN front ELSE Append(front, last)

Count(s, v) == Cardinality({i \in 1..Len(s) : s[i] = v})

(***************************************************************************)
(* The file names and file contents the model draws its inputs from.       *)
(***************************************************************************)
JsonExt == <<".", "j", "s", "o", "n">>
FileA == <<"a">> \o JsonExt
FileB == <<"b", ".", "v", "2">> \o JsonExt
FileDot == JsonExt
FileTxt == <<"n", ".", "t", "x", "t">>
FileNames == <<FileA, FileB, FileDot, FileTxt>>

Ts3 == "2024-01-01T03:00:00"
Ts7 == "2024-01-01T07:30:00"
TsBad == "not-a-date"

TurnA == [input_prompt |-> <<"The", "cat">>, output_response |-> <<"o", "k">>,
          timestamp |-> Ts3, input_tokens |-> 10, output_tokens |-> 20,
          total_tokens |-> 30]
TurnB == [input_prompt |-> <<"dog", "the", "the">>, output_response |-> <<"y">>,
          timestamp |-> Ts7, input_tokens |-> 5, output_tokens |-> 5,
          total_tokens |-> 10]
TurnNoTs == [input_prompt |-> <<"cat">>, output_response |-> <<>>]
TurnBadTs == [input_prompt |-> <<"cat">>, output_response |-> <<"n", "o">>,
              timestamp |-> TsBad]
TurnStopOnly == [input_prompt |-> <<"is", "It">>, output_response |-> <<"y">>,
                 timestamp |-> Ts7, total_tokens |-> 10]

SessionOf(id, turns) ==
    [user_id |-> "u1", project_id |-> "p1", session_id |-> id,
     datetime |-> Ts3, session_total_tokens |-> 40, chat_data |-> turns]
SessionNoChatData == [session_id |-> "s2", datetime |-> TsBad]
SessionBadDatetime == [session_id |-> "s2", datetime |-> TsBad,
                       chat_data |-> <<TurnA>>]

Object(doc) == [kind |-> "object", value |-> doc]
InvalidJson == [kind |-> "invalid", value |-> EmptyDict]
JsonArray == [kind |-> "array", value |-> EmptyDict]

\* Hand-picked file contents, one per case of the code.
SampleContents ==
    { InvalidJson, JsonArray,
      Object(EmptyDict),
      Object([chat_history |-> <<SessionNoChatData>>]),
      Object([chat_history |-> <<SessionOf("s1", <<TurnA, TurnB>>),
                                 SessionOf("s2", <<TurnB>>)>>]),
      Object([chat_history |-> <<SessionOf("s1", <<TurnNoTs>>)>>]),
      Object([chat_history |-> <<SessionOf("s1", <<TurnA, TurnBadTs>>)>>]),
      Object([chat_history |-> <<SessionBadDatetime>>]),
      Object([chat_history |-> <<SessionOf("s1", <<TurnStopOnly>>)>>]) }

\* Every nesting of sessions and turns within the bounds.
TurnLists == UNION {[1..n -> {TurnA, TurnB}] : n \in 0..MaxTurns}
GenSessionId(j) == IF j = 1 THEN "s1" ELSE "s2"
GenSessions ==
    {[session_id |-> "s1", datetime |-> Ts3]}
    \cup {SessionOf("s1", turns) : turns \in TurnLists}
GenHistories == UNION {[1..n -> GenSessions] : n \in 0..MaxSessions}
GenDocs ==
    {[chat_history |->
         [j \in 1..Len(h) |-> SetItem(h[j], "session_id", GenSessionId(j))]] :
       h \in GenHistories}

File(name, content) == [name |-> name, content |-> content]

\* Up to MaxFiles of the names, each with a sample content (a file that is
\* not a .json file is never opened, so its content is fixed).
SampleDirs ==
    UNION {
      { [i \in 1..Cardinality(idx) |->
            LET k == CHOOSE k \in idx :
                        Cardinality({m \in idx : m < k}) = i - 1
            IN  File(FileNames[k], c[k])] :
          c \in { c \in [idx -> SampleContents] :
                    \A k \in idx : ~EndsWith(FileNames[k], JsonExt)
                                      => c[k] = InvalidJson } } :
      idx \in {s \in SUBSET (1..Len(FileNames)) : Cardinality(s) <= MaxFiles} }

\* One file with an arbitrary nesting, followed by a one-turn file.
GenDirs ==
    { <<File(FileA, Object(d)),
        File(FileB, Object([chat_history |-> <<SessionOf("s1", <<TurnB>>)>>]))>> :
        d \in GenDocs }

(***************************************************************************)
(* pandas: the DataFrame, pd.to_datetime, boolean-mask selection.          *)
(***************************************************************************)
Columns == <<"user_id", "project_id", "session_id", "session_datetime",
             "session_total_tokens", "source_file", "input_prompt",
             "output_response", "timestamp", "input_tokens", "output_tokens",
             "total_tokens">>

NoneDf == [is_none |-> TRUE, columns |-> <<>>, rows |-> <<>>,
           datetime_columns |-> {}]

\* pd.DataFrame(list of dicts): the columns are the keys of the dicts, so a
\* frame made from an empty list has no columns at all.
DataFrame(rows) ==
    [is_none |-> FALSE,
     columns |-> IF rows = <<>> THEN <<>> ELSE Columns,
     rows |-> rows,
     datetime_columns |-> {}]

HasColumn(df, col) == \E i \in 1..Len(df.columns) : df.columns[i] = col

NaT == [nat |-> TRUE, hour |-> 0, minute |-> 0]

\* The strings pd.to_datetime accepts, among those the model uses.
Parsable(s) == s \in {"", Ts3, Ts7}

ParseDatetime(s) ==
    CASE s = "" -> NaT
      [] s = Ts3 -> [nat |-> FALSE, hour |-> 3, minute |-> 0]
      [] s = Ts7 -> [nat |-> FALSE, hour |-> 7, minute |-> 30]

\* df[col] = pd.to_datetime(df[col]), when every value parses.
WithDatetime(df, col) ==
    [df EXCEPT !.rows = [i \in 1..Len(df.rows) |->
                            [df.rows[i] EXCEPT ![col] = ParseDatetime(@)]],
               !.datetime_columns = @ \cup {col}]

AllParsable(df, col) == \A i \in 1..Len(df.rows) : Parsable(df.rows[i][col])

\* df[df[col] == v]: the rows, in order, whose col is v.
RowsWhere(rows, col, v) == SelectSeq(rows, LAMBDA r : r[col] = v)

Column(rows, col) == [i \in 1..Len(rows) |-> rows[i][col]]

\* Mutant of SetColumnOnSlice: the column is written through to the
\* parent's rows, as an assignment through a view of the parent would do.
SetColumnOnView(parent, keycol, key, col, lengthOf) ==
    [parent EXCEPT
       !.columns = IF HasColumn(parent, col) THEN @ ELSE Append(@, col),
       !.rows = [i \in 1..Len(parent.rows) |->
                   IF parent.rows[i][keycol] = key
                   THEN SetItem(parent.rows[i], col,
                                Len(parent.rows[i][lengthOf]))
                   ELSE parent.rows[i]]]

\* slice[col] = values, where slice = parent[mask]: boolean-mask selection
\* copies, so the new column lands in the copy and the parent is as before.
SetColumnOnSlice(parent, keycol, key, col, lengthOf) == parent

(***************************************************************************)
(* load_json_files                                                         *)
(***************************************************************************)
Msg(kind, file, n) == [kind |-> kind, file |-> file, n |-> n]

JsonFiles(d) == SelectSeq(Column(d, "name"), LAMBDA f : EndsWith(f, JsonExt))

\* Mutant of LoadLoop: the first file that fails ends the loop.
RECURSIVE LoadLoopAbortOnError(_, _, _, _)
LoadLoopAbortOnError(d, json_files, data, out) ==
    IF json_files = <<>> THEN [all_data |-> data, stdout |-> out]
    ELSE LET file_name == Head(json_files)
             content == (CHOOSE f \in {d[i] : i \in 1..Len(d)} :
                            f.name = file_name).content
         IN  IF content.kind = "object"
             THEN LoadLoopAbortOnError(d, Tail(json_files),
                           Append(data, SetItem(content.value, "source_file",
                                                file_name)),
                           Append(out, Msg("loaded", file_name, 0)))
             ELSE [all_data |-> data,
                   stdout |-> Append(out, Msg("error", file_name, 0))]

\* The loop of lines 29-38 over the files left, from what is loaded and
\* printed so far.  json.load raises on invalid JSON; on a JSON array (or
\* any non-object) the item assignment of line 34 raises.  Either way the
\* except clause prints the error and the loop goes on.
RECURSIVE LoadLoop(_, _, _, _)
LoadLoop(d, json_files, data, out) ==
    IF json_files = <<>> THEN [all_data |-> data, stdout |-> out]
    ELSE LET file_name == Head(json_files)
             content == (CHOOSE f \in {d[i] : i \in 1..Len(d)} :
                            f.name = file_name).content
         IN  IF content.kind = "object"
             THEN LoadLoop(d, Tail(json_files),
                           Append(data, SetItem(content.value, "source_file",
                                                file_name)),
                           Append(out, Msg("loaded", file_name, 0)))
             ELSE LoadLoop(d, Tail(json_files), data,
                           Append(out, Msg("error", file_name, 0)))

LoadJsonFilesResult(d, data, out) ==
    LET r == LoadLoop(d, JsonFiles(d), data, out)
    IN  [r EXCEPT !.stdout = Append(@, Msg("total", <<>>, Len(r.all_data)))]

(***************************************************************************)
(* process_data                                                            *)
(***************************************************************************)
\* The row dict of lines 61-74.
Row(session_data, chat_session, chat) ==
    [user_id |-> Get(chat_session, "user_id", "Unknown"),
     project_id |-> Get(chat_session, "project_id", "Unknown"),
     session_id |-> Get(chat_session, "session_id", "Unknown"),
     session_datetime |-> Get(chat_session, "datetime", ""),
     session_total_tokens |-> Get(chat_session, "session_total_tokens", 0),
     source_file |-> Get(session_data, "source_file", <<"U", "n", "k", "n", "o", "w", "n">>),
     input_prompt |-> Get(chat, "input_prompt", <<>>),
     output_response |-> Get(chat, "output_response", <<>>),
     timestamp |-> Get(chat, "timestamp", ""),
     input_tokens |-> Get(chat, "input_tokens", 0),
     output_tokens |-> Get(chat, "output_tokens", 0),
     total_tokens |-> Get(chat, "total_tokens", 0)]

\* Mutant of ChatRows: the loop starts at the second turn.
ChatRowsSkipFirst(session_data, chat_session) ==
    LET chat_data == Get(chat_session, "chat_data", <<>>)
    IN  [i \in 1..(Len(chat_data) - 1) |->
            Row(session_data, chat_session, chat_data[i + 1])]

\* The loop of line 60 over one session's chat_data.
ChatRows(session_data, chat_session) ==
    LET chat_data == Get(chat_session, "chat_data", <<>>)
    IN  [i \in 1..Len(chat_data) |-> Row(session_data, chat_session, chat_data[i])]

\* The loop of line 52 over one document's chat_history.
SessionRows(session_data) ==
    LET chat_history == Get(session_data, "chat_history", <<>>)
    IN  Concat([j \in 1..Len(chat_history) |->
                   ChatRows(session_data, chat_history[j])])

\* The loop of line 49: processed_rows.
ProcessedRows(data) == Concat([d \in 1..Len(data) |-> SessionRows(data[d])])

\* Mutant of ProcessDataResult: pd.to_datetime(..., errors='coerce'), a
\* value that does not parse becomes NaT instead of raising.
ProcessDataCoerce(data) ==
    LET df == DataFrame(ProcessedRows(data))
        Coerce(f, col) ==
            [f EXCEPT !.rows = [i \in 1..Len(f.rows) |->
                                  [f.rows[i] EXCEPT ![col] =
                                      IF Parsable(@) THEN ParseDatetime(@) ELSE NaT]],
                      !.datetime_columns = @ \cup {col}]
    IN  IF ~HasColumn(df, "timestamp")
        THEN [df |-> df, exc |-> "KeyError"]
        ELSE [df |-> Coerce(Coerce(df, "timestamp"), "session_datetime"),
              exc |-> ""]

\* Lines 77-83: the frame is stored first, then each date-time column is
\* converted in place; a missing column or an unparsable value raises and
\* leaves self.processed_df as it is at that point.
ProcessDataResult(data) ==
    LET df == DataFrame(ProcessedRows(data))
    IN  IF ~HasColumn(df, "timestamp")
        THEN [df |-> df, exc |-> "KeyError"]
        ELSE IF ~AllParsable(df, "timestamp")
        THEN [df |-> df, exc |-> "ValueError"]
        ELSE IF ~AllParsable(df, "session_datetime")
        THEN [df |-> WithDatetime(df, "timestamp"), exc |-> "ValueError"]
        ELSE [df |-> WithDatetime(WithDatetime(df, "timestamp"),
                                  "session_datetime"),
              exc |-> ""]

(***************************************************************************)
(* Word counting: str.lower, re.findall, Counter, most_common.             *)
(***************************************************************************)
Lower(w) == CASE w = "The" -> "the" [] w = "It" -> "it" [] OTHER -> w

\* re.findall(r'\b\w+\b', ' '.join(prompts).lower()): the words of all the
\* prompts, in order, lower-cased.
Words(prompts) ==
    Concat([i \in 1..Len(prompts) |->
               [j \in 1..Len(prompts[i]) |-> Lower(prompts[i][j])]])

stop_words == {"the", "and", "to", "of", "a", "in", "is", "that", "it", "on",
               "you", "for", "i", "with", "as", "at", "this", "but", "be",
               "are"}

\* Counter.most_common(n): the keys by falling count, keys of equal count in
\* the order the Counter holds them (first occurrence), cut to n.
RECURSIVE ByCountDesc(_, _)
ByCountDesc(keys, words) ==
    IF keys = <<>> THEN <<>>
    ELSE LET best == CHOOSE i \in 1..Len(keys) :
                        /\ \A j \in 1..Len(keys) :
                              Count(words, keys[j]) <= Count(words, keys[i])
                        /\ \A j \in 1..(i - 1) :
                              Count(words, keys[j]) < Count(words, keys[i])
         IN  <<keys[best]>>
             \o ByCountDesc(SubSeq(keys, 1, best - 1)
                            \o SubSeq(keys, best + 1, Len(keys)), words)

MostCommon(keys, words, n) ==
    LET sorted == ByCountDesc(keys, words)
    IN  [i \in 1..(IF Len(sorted) < n THEN Len(sorted) ELSE n) |->
            <<sorted[i], Count(words, sorted[i])>>]

\* Lines 137-147: the chart's top 20, stop words popped from the Counter.
ChartCommonWords(prompts) ==
    LET words == Words(prompts)
        kept == SelectSeq(Unique(words), LAMBDA w : w \notin stop_words)
    IN  MostCommon(kept, words, 20)

\* Lines 230-232: the report's top 5, straight from the Counter.
ReportCommonWords(prompts) ==
    LET words == Words(prompts)
    IN  MostCommon(Unique(words), words, 5)

(***************************************************************************)
(* create_visualizations                                                   *)
(***************************************************************************)
Charts == <<"multi_session_interaction_frequency.png",
            "multi_session_token_distribution.png",
            "common_words_analysis.png",
            "multi_session_response_length.png",
            "session_activity_heatmap.png">>

\* The chart at which create_visualizations raises (0: none), given the
\* chart whose rendering or saving fails for a reason of the environment
\* (io_fail, 0: none).  Line 148 unpacks zip(*common_words), which raises
\* ValueError when no word is left to plot.
FailingChart(file_rows, io_fail) ==
    IF io_fail \in {1, 2} THEN [chart |-> io_fail, exc |-> "OSError"]
    ELSE IF ChartCommonWords(Column(file_rows, "input_prompt")) = <<>>
    THEN [chart |-> 3, exc |-> "ValueError"]
    ELSE [chart |-> io_fail, exc |-> IF io_fail = 0 THEN "" ELSE "OSError"]

\* Lines 168-170: the loop that adds response_length to each session's
\* selection; the value is self.processed_df afterwards.
RECURSIVE ResponseLengthLoop(_, _)
ResponseLengthLoop(df, session_ids) ==
    IF session_ids = <<>> THEN df
    ELSE ResponseLengthLoop(
             SetColumnOnSlice(df, "session_id", Head(session_ids),
                              "response_length", "output_response"),
             Tail(session_ids))

(***************************************************************************)
(* generate_summary_report                                                 *)
(***************************************************************************)
NoReport == [header |-> FALSE, total_sessions |-> 0, total_interactions |-> 0,
             total_tokens_used |-> 0, files |-> <<>>, time_analysis |-> FALSE,
             busiest_hour |-> 0, top_words |-> <<>>]

RECURSIVE Sum(_)
Sum(s) == IF s = <<>> THEN 0 ELSE Head(s) + Sum(Tail(s))

NUnique(s) == Len(Unique(s))

\* The hours of the rows whose timestamp is not NaT (groupby drops NaN keys).
Hours(rows) ==
    LET valid == SelectSeq(rows, LAMBDA r : ~r.timestamp.nat)
    IN  [i \in 1..Len(valid) |-> valid[i].timestamp.hour]

RECURSIVE Sorted(_)
Sorted(S) == IF S = {} THEN <<>>
             ELSE LET m == CHOOSE m \in S : \A n \in S : m <= n
                  IN  <<m>> \o Sorted(S \ {m})

\* groupby(hour).size(): one entry per hour, by rising hour.
HourlySize(hours) ==
    LET keys == Sorted({hours[i] : i \in 1..Len(hours)})
    IN  [i \in 1..Len(keys) |-> [hour |-> keys[i], size |-> Count(hours, keys[i])]]

\* Mutant of IdxMax: the last entry holding the maximum.
IdxMaxLast(series) ==
    LET last == CHOOSE i \in 1..Len(series) :
                    /\ \A j \in 1..Len(series) : series[j].size <= series[i].size
                    /\ \A j \in (i + 1)..Len(series) : series[j].size < series[i].size
    IN  series[last].hour

\* Series.idxmax(): the label of the first entry holding the maximum.
IdxMax(series) ==
    LET first == CHOOSE i \in 1..Len(series) :
                    /\ \A j \in 1..Len(series) : series[j].size <= series[i].size
                    /\ \A j \in 1..(i - 1) : series[j].size < series[i].size
    IN  series[first].hour

\* Lines 216-223: one entry per source file.
FileBreakdown(rows) ==
    LET files == Unique(Column(rows, "source_file"))
    IN  [i \in 1..Len(files) |->
            LET file_data == RowsWhere(rows, "source_file", files[i])
            IN  [file |-> files[i],
                 sessions |-> NUnique(Column(file_data, "session_id")),
                 interactions |-> Len(file_data),
                 total_tokens |-> Sum(Column(file_data, "total_tokens"))]]

\* What generate_summary_report prints, and the exception it ends with:
\* idxmax of an empty series (no row has a timestamp) raises ValueError
\* after the statistics and the file breakdown are out.
SummaryReport(df) ==
    LET rows == df.rows
        stats == [NoReport EXCEPT
                    !.header = TRUE,
                    !.total_sessions = NUnique(Column(rows, "session_id")),
                    !.total_interactions = Len(rows),
                    !.total_tokens_used = Sum(Column(rows, "total_tokens")),
                    !.files = FileBreakdown(rows),
                    !.time_analysis = TRUE]
        sizes == HourlySize(Hours(rows))
    IN  IF sizes = <<>>
        THEN [report |-> stats, exc |-> "ValueError"]
        ELSE [report |-> [stats EXCEPT
                            !.busiest_hour = IdxMax(sizes),
                            !.top_words =
                                ReportCommonWords(Column(rows, "input_prompt"))],
              exc |-> ""]

(***************************************************************************)
(* main() and the methods it calls, one action per step.                   *)
(***************************************************************************)
Call(fn, arg) == [fn |-> fn, arg |-> arg]

Init ==
    /\ dir \in SampleDirs \cup GenDirs
    /\ all_data = <<>>
    /\ processed_df = NoneDf
    /\ pc = "start"
    /\ todo = <<>>
    /\ stdout = <<>>
    /\ out_dirs = {}
    /\ out_files = {}
    /\ report = NoReport
    /\ exc = ""
    /\ calls = <<>>

\* Lines 241-256: the banner, then the early return when the directory
\* holds no .json file.
MainStart ==
    /\ pc = "start"
    /\ IF JsonFiles(dir) = <<>>
       THEN /\ stdout' = stdout \o <<Msg("banner", <<>>, 0), Msg("no_files", <<>>, 0)>>
            /\ pc' = "returned"
       ELSE /\ stdout' = Append(stdout, Msg("banner", <<>>, 0))
            /\ pc' = "load"
    /\ UNCHANGED <<dir, all_data, processed_df, todo, out_dirs, out_files,
                   report, exc, calls>>

\* Line 259: analyzer.load_json_files().
LoadJsonFiles ==
    /\ pc = "load"
    /\ LET r == LoadJsonFilesResult(dir, all_data, stdout)
       IN  /\ all_data' = r.all_data
           /\ stdout' = r.stdout
    /\ calls' = Append(calls, Call("load_json_files", <<>>))
    /\ pc' = "loaded"
    /\ UNCHANGED <<dir, processed_df, todo, out_dirs, out_files, report, exc>>

\* Mutant of MainCheckLoaded: no early return.
MainCheckLoadedNoReturn ==
    /\ pc = "loaded"
    /\ pc' = "process"
    /\ UNCHANGED <<dir, all_data, processed_df, todo, stdout, out_dirs,
                   out_files, report, exc, calls>>

\* Lines 260-262: the early return when nothing was loaded.
MainCheckLoaded ==
    /\ pc = "loaded"
    /\ IF all_data = <<>>
       THEN /\ stdout' = Append(stdout, Msg("no_data", <<>>, 0))
            /\ pc' = "returned"
       ELSE /\ stdout' = stdout
            /\ pc' = "process"
    /\ UNCHANGED <<dir, all_data, processed_df, todo, out_dirs, out_files,
                   report, exc, calls>>

\* Line 264: analyzer.process_data().
ProcessData ==
    /\ pc = "process"
    /\ LET r == ProcessDataResult(all_data)
       IN  /\ processed_df' = r.df
           /\ exc' = r.exc
           /\ pc' = IF r.exc = "" THEN "processed" ELSE "raised"
    /\ calls' = Append(calls, Call("process_data", <<>>))
    /\ UNCHANGED <<dir, all_data, todo, stdout, out_dirs, out_files, report>>

\* Mutant of MainBeginVisualizations: the loop runs over the source_file
\* column itself, one visit per row.
MainBeginVisualizationsPerRow ==
    /\ pc = "processed"
    /\ stdout' = Append(stdout, Msg("generating", <<>>, 0))
    /\ todo' = Column(processed_df.rows, "source_file")
    /\ pc' = "visualize"
    /\ UNCHANGED <<dir, all_data, processed_df, out_dirs, out_files, report,
                   exc, calls>>

\* Lines 267-268: the message, and the source files the loop will visit.
MainBeginVisualizations ==
    /\ pc = "processed"
    /\ stdout' = Append(stdout, Msg("generating", <<>>, 0))
    /\ todo' = Unique(Column(processed_df.rows, "source_file"))
    /\ pc' = "visualize"
    /\ UNCHANGED <<dir, all_data, processed_df, out_dirs, out_files, report,
                   exc, calls>>

\* Line 269: analyzer.create_visualizations(source_file) for the next file.
\* The charts saved before the failing one stay on disk.
CreateVisualizations ==
    /\ pc = "visualize"
    /\ todo # <<>>
    /\ \E io_fail \in 0..Len(Charts) :
         LET source_file == Head(todo)
             file_dir == SplitextRoot(source_file)
             file_data == RowsWhere(processed_df.rows, "source_file", source_file)
             fail == FailingChart(file_data, io_fail)
             saved == IF fail.chart = 0 THEN 1..Len(Charts)
                      ELSE 1..(fail.chart - 1)
         IN  /\ out_dirs' = out_dirs \cup {file_dir}
             /\ out_files' = out_files
                    \cup {[dir |-> file_dir, file |-> Charts[i]] : i \in saved}
             /\ processed_df' =
                    IF fail.chart = 0 \/ fail.chart >= 4
                    THEN ResponseLengthLoop(processed_df,
                             Unique(Column(file_data, "session_id")))
                    ELSE processed_df
             /\ IF fail.chart = 0
                THEN /\ stdout' = Append(stdout, Msg("created", source_file, 0))
                     /\ todo' = Tail(todo)
                     /\ UNCHANGED <<pc, exc>>
                ELSE /\ pc' = "raised"
                     /\ exc' = fail.exc
                     /\ UNCHANGED <<stdout, todo>>
             /\ calls' = Append(calls, Call("create_visualizations", source_file))
    /\ UNCHANGED <<dir, all_data, report>>

\* Line 272: analyzer.generate_summary_report(), once the loop is over.
GenerateSummaryReport ==
    /\ pc = "visualize"
    /\ todo = <<>>
    /\ LET r == SummaryReport(processed_df)
       IN  /\ report' = r.report
           /\ exc' = r.exc
           /\ pc' = IF r.exc = "" THEN "reported" ELSE "raised"
    /\ calls' = Append(calls, Call("generate_summary_report", <<>>))
    /\ UNCHANGED <<dir, all_data, processed_df, todo, stdout, out_dirs, out_files>>

\* Line 274: the completion message.
MainComplete ==
    /\ pc = "reported"
    /\ stdout' = Append(stdout, Msg("complete", <<>>, 0))
    /\ pc' = "returned"
    /\ UNCHANGED <<dir, all_data, processed_df, todo, out_dirs, out_files,
                   report, exc, calls>>

Next ==
    \/ MainStart
    \/ LoadJsonFiles
    \/ MainCheckLoaded
    \/ ProcessData
    \/ MainBeginVisualizations
    \/ CreateVisualizations
    \/ GenerateSummaryReport
    \/ MainComplete

Spec == Init /\ [][Next]_vars

(***************************************************************************)
(* Vocabulary of the properties.                                           *)
(***************************************************************************)
Called(fn) == {i \in 1..Len(calls) : calls[i].fn = fn}

Printed(kind) == {i \in 1..Len(stdout) : stdout[i].kind = kind}

Completed == Printed("complete") # {}

LoadReturned == pc \notin {"start", "load"}

\* The run ended in process_data: it is the last method invoked, and raised.
ProcessRaised ==
    pc = "raised" /\ calls # <<>> /\ calls[Len(calls)].fn = "process_data"

ProcessReturned == Called("process_data") # {} /\ ~ProcessRaised

ChatHistoryAt(d) == Get(all_data[d], "chat_history", <<>>)

ChatDataAt(d, s) == Get(ChatHistoryAt(d)[s], "chat_data", <<>>)

\* The turns of the loaded documents, as <<document, session, turn>>.
Positions ==
    UNION { UNION { { <<d, s, t>> : t \in 1..Len(ChatDataAt(d, s)) } :
                    s \in 1..Len(ChatHistoryAt(d)) } :
            d \in 1..Len(all_data) }

Before(p, q) ==
    \/ p[1] < q[1]
    \/ p[1] = q[1] /\ p[2] < q[2]
    \/ p[1] = q[1] /\ p[2] = q[2] /\ p[3] < q[3]

MalformedAt(p) ==
    \/ ~Parsable(Get(ChatDataAt(p[1], p[2])[p[3]], "timestamp", ""))
    \/ ~Parsable(Get(ChatHistoryAt(p[1])[p[2]], "datetime", ""))

\* A .json file's name without its extension; a name with only dots before
\* ".json" (".json" itself) is a dot-file without extension, and is kept.
ExtensionStripped(f) ==
    IF \A i \in 1..(Len(f) - Len(JsonExt)) : f[i] = "."
    THEN f
    ELSE SubSeq(f, 1, Len(f) - Len(JsonExt))

AllCharts(d) == \A i \in 1..Len(Charts) : [dir |-> d, file |-> Charts[i]] \in out_files

SourceFiles == {processed_df.rows[i].source_file : i \in 1..Len(processed_df.rows)}

(***************************************************************************)
(* C1.  The table process_data builds has one row per chat turn of the     *)
(* loaded documents (a session without chat_data adds none), and the rows  *)
(* stand in document order, then session order, then turn order: the row   *)
(* at the rank of a turn carries that turn's fields, its session's id and  *)
(* its document's file name.                                               *)
(***************************************************************************)
C1_RowPerTurnInOrder ==
    ~processed_df.is_none =>
       LET positions == Positions
           Rank(p) == 1 + Cardinality({q \in positions : Before(q, p)})
       IN
       /\ Len(processed_df.rows) = Cardinality(positions)
       /\ \A p \in positions :
            LET row == processed_df.rows[Rank(p)]
                session == ChatHistoryAt(p[1])[p[2]]
                chat == ChatDataAt(p[1], p[2])[p[3]]
            IN  /\ row.source_file = all_data[p[1]].source_file
                /\ row.session_id = Get(session, "session_id", "Unknown")
                /\ row.input_prompt = Get(chat, "input_prompt", <<>>)
                /\ row.output_response = Get(chat, "output_response", <<>>)
                /\ row.total_tokens = Get(chat, "total_tokens", 0)

C1_Witness ==
    /\ pc = "processed"
    /\ Len(all_data) = 2
    /\ Len(processed_df.rows) >= 3
    /\ \E d \in 1..Len(all_data) :
         /\ Len(ChatHistoryAt(d)) = 2
         /\ "chat_data" \notin DOMAIN ChatHistoryAt(d)[1]
         /\ Len(ChatDataAt(d, 2)) = 2
         /\ ChatDataAt(d, 2)[1] # ChatDataAt(d, 2)[2]

(***************************************************************************)
(* C2.  Once load_json_files has returned, every .json file of the         *)
(* directory is counted exactly once, as loaded or as failed: all_data     *)
(* holds the files that parse to a JSON object, each once and in listing   *)
(* order, one error is printed for each of the others, and the two counts  *)
(* add up to the number of .json files.                                    *)
(***************************************************************************)
C2_EveryFileCountedOnce ==
    LoadReturned =>
       LET json_files == JsonFiles(dir)
           WellFormed(f) == \E i \in 1..Len(dir) :
                               dir[i].name = f /\ dir[i].content.kind = "object"
           good == SelectSeq(json_files, WellFormed)
           bad == SelectSeq(json_files, LAMBDA f : ~WellFormed(f))
       IN  /\ Column(all_data, "source_file") = good
           /\ Cardinality(Printed("loaded")) = Len(good)
           /\ Cardinality(Printed("error")) = Len(bad)
           /\ Len(all_data) + Cardinality(Printed("error")) = Len(json_files)
           /\ \A k \in 1..Len(json_files) :
                Cardinality({i \in Printed("loaded") \cup Printed("error") :
                               stdout[i].file = json_files[k]}) = 1
           /\ \A i, j \in 1..Len(all_data) :
                all_data[i].source_file = all_data[j].source_file => i = j
           /\ \A i \in Printed("total") : stdout[i].n = Len(all_data)

C2_Witness ==
    /\ pc = "loaded"
    /\ \E i \in Printed("error"), j \in Printed("loaded") : i < j
    /\ Len(all_data) = 1

(***************************************************************************)
(* C3.  A loaded document without a chat_history key never makes           *)
(* process_data raise: when every date-time of every turn parses,          *)
(* process_data returns, also when no document contributes a row.          *)
(***************************************************************************)
C3_AbsentChatHistoryNeverRaises ==
    ( /\ \E d \in 1..Len(all_data) : "chat_history" \notin DOMAIN all_data[d]
      /\ \A p \in Positions : ~MalformedAt(p)
      /\ Called("process_data") # {} )
    => ProcessReturned

(***************************************************************************)
(* C4.  The top words of the summary report follow the stop-word rule of   *)
(* the common-words chart: no stop word is listed among them.              *)
(***************************************************************************)
C4_ReportTopWordsHaveNoStopWord ==
    \A i \in 1..Len(report.top_words) : report.top_words[i][1] \notin stop_words

(***************************************************************************)
(* C5.  When the directory holds no .json file, or none of its .json       *)
(* files loads, main() prints its message and returns without an error,    *)
(* and process_data, create_visualizations and generate_summary_report     *)
(* are never invoked: no chart is written, no report printed.              *)
(***************************************************************************)
C5_NothingToAnalyseReturnsEarly ==
    (\A i \in 1..Len(dir) :
        EndsWith(dir[i].name, JsonExt) => dir[i].content.kind # "object")
    => /\ pc \in {"start", "load", "loaded", "returned"}
       /\ exc = ""
       /\ \A i \in 1..Len(calls) : calls[i].fn = "load_json_files"
       /\ out_dirs = {} /\ out_files = {}
       /\ report = NoReport
       /\ processed_df = NoneDf
       /\ pc = "returned" =>
             stdout[Len(stdout)].kind =
                 (IF JsonFiles(dir) = <<>> THEN "no_files" ELSE "no_data")

C5_Witness ==
    /\ pc = "returned"
    /\ JsonFiles(dir) # <<>>
    /\ all_data = <<>>
    /\ Printed("no_data") # {}

C7_MalformedTimestampHaltsRun ==
    (LoadReturned /\ \E p \in Positions : MalformedAt(p)) =>
       /\ pc \in {"loaded", "process", "raised"}
       /\ Called("process_data") # {} => ProcessRaised /\ exc = "ValueError"
       /\ processed_df.datetime_columns # {"timestamp", "session_datetime"}
       /\ Called("create_visualizations") = {}
       /\ Called("generate_summary_report") = {}
       /\ out_files = {} /\ report = NoReport /\ ~Completed

C7_Witness ==
    /\ ProcessRaised
    /\ Len(all_data) = 2
    /\ \E p \in Positions : MalformedAt(p)
    /\ \E p \in Positions : ~MalformedAt(p)
    /\ processed_df.datetime_columns = {"timestamp"}

(***************************************************************************)
(* C8.  The busiest hour of the report is an hour of the day with the      *)
(* most rows in the whole table, and the lowest such hour when several     *)
(* hours have the most rows.                                               *)
(***************************************************************************)
RowsAtHour(h) ==
    {i \in 1..Len(processed_df.rows) :
        /\ ~processed_df.rows[i].timestamp.nat
        /\ processed_df.rows[i].timestamp.hour = h}

C8_BusiestHourIsFirstMaximum ==
    pc \in {"reported", "returned"} /\ report.header =>
       LET most == Cardinality(RowsAtHour(report.busiest_hour))
       IN  /\ most > 0
           /\ \A h \in 0..23 :
                LET n == Cardinality(RowsAtHour(h))
                IN  n <= most /\ (n = most => report.busiest_hour <= h)

C8_Witness ==
    /\ pc = "reported"
    /\ report.busiest_hour = 3
    /\ Cardinality(RowsAtHour(3)) = Cardinality(RowsAtHour(7))
    /\ processed_df.rows[1].timestamp.hour = 7

(***************************************************************************)
(* C9.  The methods run in the order load_json_files, process_data,        *)
(* create_visualizations once for each distinct source_file of the table   *)
(* (in order of first appearance), generate_summary_report once; the       *)
(* report starts only when every chart call has returned, the completion   *)
(* message comes after the report, and a run that an exception ends in a   *)
(* create_visualizations call has no report and no completion message.     *)
(***************************************************************************)
ExpectedCalls ==
    LET files == Unique(Column(processed_df.rows, "source_file"))
    IN  <<Call("load_json_files", <<>>), Call("process_data", <<>>)>>
        \o [i \in 1..Len(files) |-> Call("create_visualizations", files[i])]
        \o <<Call("generate_summary_report", <<>>)>>

C9_StepsInOrder ==
    /\ LET expected == ExpectedCalls
       IN  /\ Len(calls) <= Len(expected)
           /\ calls = SubSeq(expected, 1, Len(calls))
           /\ \A i \in Called("generate_summary_report") :
                 /\ i = Len(expected)
                 /\ Cardinality(Printed("created")) = Cardinality(SourceFiles)
           /\ Completed => calls = expected /\ report.header /\ exc = ""
    /\ (pc = "raised" /\ calls[Len(calls)].fn = "create_visualizations") =>
          /\ Called("generate_summary_report") = {}
          /\ report = NoReport
          /\ ~Completed

C9_Witness ==
    /\ Completed
    /\ Cardinality(Called("create_visualizations")) = 2
    /\ Cardinality(Called("generate_summary_report")) = 1

====
